---------------------------- MODULE Spec2Model ----------------------------
(***************************************************************************)
(* A model of src/bot.py: the Telegram transcription bot.                  *)
(*                                                                         *)
(* One message is handled at a time (ApplicationBuilder() is built without *)
(* concurrent_updates, so the dispatcher awaits handle_message before it   *)
(* takes the next update).  The state is the handler's position, its       *)
(* locals, the files of its temporary directories, and logs of what it     *)
(* asked of the network, of ffmpeg/ffprobe and of the whisper model.       *)
(*                                                                         *)
(* Texts and URLs are sequences: a text is a sequence of characters, a URL *)
(* a sequence of tokens (each token a piece of the URL string).            *)
(* Durations are whole numbers of seconds.                                 *)
(*                                                                         *)
(* Spec is the bot handling messages.  SpecNormalize is normalize_link on  *)
(* its own, applied twice to every URL of a bounded set.                   *)
(***************************************************************************)
EXTENDS Integers, Sequences, FiniteSets, TLC

(***************************************************************************)
(* Bounds of the model.                                                    *)
(***************************************************************************)
MaxDuration == 5        \* longest probed duration explored
MaxChunk == 3           \* largest CHUNK_SECONDS explored
MaxSpin == 2            \* iterations explored of a loop that never ends
MaxUrlLen == 3          \* longest URL (in tokens) given to normalize_link alone

(***************************************************************************)
(* Configuration (module level of bot.py).                                 *)
(***************************************************************************)
MIN_BYTES == 10000

NoTimeout == 0          \* subprocess.run(...) without a timeout argument

ChunkValues == (-1) .. MaxChunk     \* int(os.getenv("CHUNK_SECONDS", ...))
Sizes == {0, MIN_BYTES - 1, MIN_BYTES}

Min(a, b) == IF a <= b THEN a ELSE b

Range(s) == {s[i] : i \in DOMAIN s}

(***************************************************************************)
(* Texts: str.strip(), str.join().                                         *)
(***************************************************************************)
SP == " "
NL == "\n"

IsSpace(c) == c \in {SP, NL}

RECURSIVE LStrip(_)
LStrip(s) ==
    IF s # <<>> /\ IsSpace(Head(s)) THEN LStrip(Tail(s)) ELSE s

RECURSIVE RStrip(_)
RStrip(s) ==
    IF s # <<>> /\ IsSpace(s[Len(s)])
    THEN RStrip(SubSeq(s, 1, Len(s) - 1))
    ELSE s

Strip(s) == RStrip(LStrip(s))

RECURSIVE Join(_, _)
Join(sep, parts) ==
    IF parts = <<>> THEN <<>>
    ELSE IF Len(parts) = 1 THEN parts[1]
    ELSE parts[1] \o sep \o Join(sep, Tail(parts))

NonEmpty(s) == s # <<>>

\* [ (seg.text or "").strip() for seg in segments if (seg.text or "").strip() ]
Parts(segments) ==
    SelectSeq([i \in DOMAIN segments |-> Strip(segments[i])], NonEmpty)

\* "\n".join(parts).strip()
UnitText(segments) == Strip(Join(<<NL>>, Parts(segments)))

\* What model.transcribe may yield for one waveform: the texts of its segments.
BackendOutputs ==
    { <<>>,
      << <<SP>> >>,
      << <<SP, "a">>, <<"b", SP>> >>,
      << <<"c">> >> }

(***************************************************************************)
(* URLs.  Tokens and what the code's substring tests see in them.          *)
(***************************************************************************)
ZoomRec == "https://zoom.us/rec/"
DriveHost == "https://drive.google.com/"
CloudHost == "https://cloud.example"

HasDownload(tok) == tok \in {"download", "uc?export=download"}
HasPwd(tok) == tok \in {"?pwd=", "&pwd="}
HasQuestion(tok) == tok \in {"?pwd=", "?id=F", "uc?export=download"}
IdOf(tok) == IF tok \in {"?id=F", "&id=F", "file/d/F"} THEN "F" ELSE ""

\* "download" in url, "pwd=" in url, "?" in url
ContainsDownload(url) == \E i \in DOMAIN url : HasDownload(url[i])
ContainsPwd(url) == \E i \in DOMAIN url : HasPwd(url[i])
ContainsQuestion(url) == \E i \in DOMAIN url : HasQuestion(url[i])

\* "/s/" in url
HasShareDir(url) ==
    \E i \in 1 .. (Len(url) - 1) : url[i] = "/s" /\ url[i + 1] = "/"

\* url.endswith("/download")
EndsWithDownload(url) ==
    /\ Len(url) >= 2
    /\ url[Len(url) - 1] = "/"
    /\ url[Len(url)] = "download"

RECURSIVE RStripSlash(_)
RStripSlash(url) ==
    IF url # <<>> /\ url[Len(url)] = "/"
    THEN RStripSlash(SubSeq(url, 1, Len(url) - 1))
    ELSE url

RECURSIVE StripUrl(_)
StripUrl(url) ==
    IF url # <<>> /\ Head(url) = SP THEN StripUrl(Tail(url))
    ELSE IF url # <<>> /\ url[Len(url)] = SP
         THEN StripUrl(SubSeq(url, 1, Len(url) - 1))
    ELSE url

\* Mutant: /download is appended to every link with /s/.
normalize_linkAlwaysAppends(url) ==
    LET u == StripUrl(url) IN
    IF HasShareDir(u) THEN RStripSlash(u) \o <<"/", "download">> ELSE u

normalize_link(url) ==
    LET u == StripUrl(url) IN
    IF HasShareDir(u) /\ ~ContainsDownload(u)
    THEN IF ~EndsWithDownload(u)
         THEN RStripSlash(u) \o <<"/", "download">>
         ELSE u
    ELSE u

\* ZOOM_HOST_RE.search(link)
IsZoom(url) == ZoomRec \in Range(url)

\* "drive.google.com" in link or "drive.usercontent.google.com" in link
IsDrive(url) == DriveHost \in Range(url)

\* drive_extract_id: the first id a pattern finds, "" for None
RECURSIVE drive_extract_id(_)
drive_extract_id(url) ==
    IF url = <<>> THEN ""
    ELSE IF IdOf(Head(url)) # "" THEN IdOf(Head(url))
    ELSE drive_extract_id(Tail(url))

\* urllib.parse.quote on the characters of a passcode
Quote(p) == [i \in DOMAIN p |-> IF p[i] = "$" THEN "%24" ELSE p[i]]

NoLink == <<>>
NoPasscode == <<>>      \* extract_passcode returned None

\* What extract_passcode may find in the text of the message.
Passcodes == { NoPasscode, <<"A", "$">> }

\* The messages handled: an attachment, a link, both or neither, and what
\* extract_passcode finds in the text.
Message(m, l, p) == [media |-> m, link |-> l, passcode |-> p]

Messages ==
    { Message(TRUE, NoLink, NoPasscode),
      Message(TRUE, <<CloudHost, "/", "a.mp3">>, NoPasscode),
      Message(FALSE, NoLink, NoPasscode),
      Message(FALSE, <<DriveHost, "file/d/F", "/", "view">>, NoPasscode),
      Message(FALSE, <<DriveHost, "drive/folders/x">>, NoPasscode),
      Message(FALSE, <<CloudHost, "/s", "/", "tok">>, NoPasscode) }
    \cup { Message(FALSE, l, p) :
             l \in { <<ZoomRec, "share/abc">>,
                     <<ZoomRec, "share/abc", "?pwd=", "S">>,
                     <<ZoomRec, "share/abc", "/", DriveHost>>,
                     <<CloudHost, "/", "a.mp3">> },
             p \in Passcodes }

Response(ctype, n) == [ctype |-> ctype, bytes |-> n]
NoResponse == Response("none", 0)

Interstitial(ctype, body_token, jar) ==
    [ctype |-> ctype, body_token |-> body_token, jar |-> jar]
NoInterstitial == Interstitial("none", "", <<>>)

NoAnswer == [kind |-> "none", val |-> 0]

VARIABLES
    CHUNK_SECONDS,  \* the configured chunk length
    faster_model,   \* _faster_model: "None" or "loaded"
    built,          \* how many WhisperModel objects were constructed
    used,           \* the instances model.transcribe was called on
    pc,             \* where handle_message is
    media,          \* the message has an attachment
    link,           \* the first URL of its text, NoLink if none
    passcode,       \* extract_passcode(text_in)
    files,          \* the files of the request's temporary directory
    src_bytes,      \* size of the source file
    src_ctype,      \* what the source file holds: "media" or "html"
    chunk_files,    \* the files of the chunk directory (ordinals)
    http,           \* the HTTP requests issued, in order
    procs,          \* the ffmpeg/ffprobe invocations, in order
    replies,        \* the replies sent, in order
    err,            \* the exception raised last, "" if none
    response,       \* the last HTTP response: its Content-Type and size
    interstitial,   \* Drive's first response when it is not the file
    probe_answer,   \* what ffprobe answered
    duration,       \* transcribe_wav_chunked: duration
    start,          \* ... start
    idx,            \* ... idx
    trims,          \* the (idx, start, t) of each trim invocation, in order
    asr,            \* the waveforms given to model.transcribe, in order
    seg_outputs,    \* what model.transcribe returned for each
    out_texts,      \* transcribe_wav_chunked: out_texts
    text,           \* the text transcribe_wav_chunked returned
    normalized      \* a URL and what successive normalize_link calls made of it

cfgVars == <<CHUNK_SECONDS>>
msgVars == <<media, link, passcode>>
fileVars == <<files, src_bytes, src_ctype, chunk_files>>
logVars == <<http, procs, replies, err>>
netVars == <<response, interstitial>>
modelVars == <<built, used>>
ctxVars == <<CHUNK_SECONDS, faster_model, media, link, passcode, probe_answer>>
loopVars == <<duration, start, idx, trims, asr, seg_outputs, out_texts, text>>

vars == <<CHUNK_SECONDS, faster_model, built, used, pc, media, link, passcode, files,
          src_bytes, src_ctype, chunk_files, http, procs, replies, err,
          response, interstitial, probe_answer,
          duration, start, idx, trims, asr, seg_outputs, out_texts, text,
          normalized>>

\* The process as main() finds it: the module level has run, no message
\* has arrived.
ModuleLoaded ==
    /\ CHUNK_SECONDS \in ChunkValues
    /\ faster_model = "None"
    /\ built = 0
    /\ used = {}
    /\ pc = "idle"
    /\ media = FALSE
    /\ link = NoLink
    /\ passcode = NoPasscode
    /\ files = {}
    /\ src_bytes = 0
    /\ src_ctype = "none"
    /\ chunk_files = {}
    /\ http = <<>>
    /\ procs = <<>>
    /\ replies = <<>>
    /\ err = ""
    /\ response = NoResponse
    /\ interstitial = NoInterstitial
    /\ probe_answer = NoAnswer
    /\ duration = 0
    /\ start = 0
    /\ idx = 0
    /\ trims = <<>>
    /\ asr = <<>>
    /\ seg_outputs = <<>>
    /\ out_texts = <<>>
    /\ text = <<>>

Init ==
    /\ ModuleLoaded
    /\ normalized = <<>>

\* The request's locals and logs as a new call of handle_message finds them.
FreshRequest ==
    /\ files' = {}
    /\ src_bytes' = 0
    /\ src_ctype' = "none"
    /\ chunk_files' = {}
    /\ http' = <<>>
    /\ procs' = <<>>
    /\ err' = ""
    /\ response' = NoResponse
    /\ interstitial' = NoInterstitial
    /\ probe_answer' = NoAnswer
    /\ duration' = 0
    /\ start' = 0
    /\ idx' = 0
    /\ trims' = <<>>
    /\ asr' = <<>>
    /\ seg_outputs' = <<>>
    /\ out_texts' = <<>>
    /\ text' = <<>>

\* An operation that never answers: one with a timeout is aborted (it
\* raises), one without blocks its caller for good.
Await(timeout, answer) ==
    IF answer # "hang" THEN answer
    ELSE IF timeout = NoTimeout THEN "blocked" ELSE "raise"


\* Mutant: only the source and the waveform are removed.
LeaveTmpdirInputsOnly == files' = files \ {"src", "wav"}

\* Leaving `with tempfile.TemporaryDirectory() as tmpdir` of handle_message:
\* the directory and all it holds are removed.
LeaveTmpdir == files' = {}

\* Leaving `with tempfile.TemporaryDirectory() as tmpdir` of
\* transcribe_wav_chunked, by the end of the loop or by an exception.
LeaveChunkDir == chunk_files' = {}

\* Mutant: the size is not looked at.
TooSmallNever(exists, n) == FALSE

\* ensure_min_size(path): the file is missing or smaller than MIN_BYTES
TooSmall(exists, n) == ~exists \/ n < MIN_BYTES

(***************************************************************************)
(* handle_message: the message and the acquisition of its source.          *)
(***************************************************************************)

\* A message arrives; the handler picks its branch and announces it.
Receive ==
    /\ pc \in {"idle", "done"}
    /\ \E msg \in Messages :
        /\ media' = msg.media
        /\ link' = msg.link
        /\ passcode' = msg.passcode
        /\ IF msg.media
           THEN pc' = "attach_dl" /\ replies' = <<"downloading">>
           ELSE IF msg.link # NoLink
           THEN pc' = "link_dl" /\ replies' = <<"downloading_link">>
           ELSE pc' = "done" /\ replies' = <<"hint">>
    /\ FreshRequest
    /\ UNCHANGED <<cfgVars, normalized, faster_model, modelVars>>

\* get_file and download_to_drive(src); an exception here is not caught.
AttachDownload ==
    /\ pc = "attach_dl"
    /\ \E answer \in {"ok", "raise"}, n \in Sizes :
        IF answer = "ok"
        THEN /\ files' = files \cup {"src"}
             /\ src_bytes' = n
             /\ src_ctype' = "media"
             /\ pc' = "attach_min"
             /\ err' = err
        ELSE /\ pc' = "exit"
             /\ err' = "telegram"
             /\ UNCHANGED <<files, src_bytes, src_ctype>>
    /\ UNCHANGED <<ctxVars, normalized, modelVars, netVars, chunk_files, http, procs,
                   replies, loopVars>>

AttachEnsureMin ==
    /\ pc = "attach_min"
    /\ IF TooSmall("src" \in files, src_bytes)
       THEN /\ err' = "too_small"
            /\ replies' = Append(replies, "error_size")
            /\ pc' = "exit"
       ELSE /\ replies' = Append(replies, "extracting")
            /\ pc' = "extract"
            /\ err' = err
    /\ UNCHANGED <<ctxVars, normalized, modelVars, netVars, fileVars, http, procs,
                   loopVars>>

\* Mutant: the Drive test comes first.
ProviderDriveFirst(url) ==
    IF IsDrive(url) THEN "drive"
    ELSE IF IsZoom(url) THEN "zoom"
    ELSE "generic"

\* download_from_link: which strategy a (normalized) link is given to.
Provider(url) ==
    IF IsZoom(url) THEN "zoom"
    ELSE IF IsDrive(url) THEN "drive"
    ELSE "generic"

\* The requests.Session a request goes through: one per call of
\* download_zoom_recording, one per Drive download, none for requests.get.
SessionOf(op) ==
    CASE op \in {"zoom_page", "zoom_download"} -> "zoom_session"
      [] op \in {"drive", "drive_confirm"} -> "drive_session"
      [] OTHER -> "none"

\* The headers the code gives a request: session.headers.update(...) or
\* headers=...; no call passes any other.
HeadersOf(op) == {"User-Agent"}

Request(op, url, timeout) ==
    [op |-> op, url |-> url, timeout |-> timeout,
     session |-> SessionOf(op), headers |-> HeadersOf(op)]

\* Mutant: after the error reply the download is tried again.
LinkFailsAndRetries(e) ==
    /\ err' = e
    /\ replies' = Append(replies, "error_download")
    /\ pc' = "link_dl"

\* `except Exception as e` around download_from_link and ensure_min_size:
\* the error reply, then return.
LinkFails(e) ==
    /\ err' = e
    /\ replies' = Append(replies, "error_download")
    /\ pc' = "exit"

\* open(dest_path, "wb") and the streamed body written to it
WriteSrc(n, ctype) ==
    /\ files' = files \cup {"src"}
    /\ src_bytes' = n
    /\ src_ctype' = ctype

NoWrite == UNCHANGED <<files, src_bytes, src_ctype>>

LinkAcquired ==
    /\ pc' = "link_min"
    /\ UNCHANGED <<err, replies>>

\* The URL download_zoom_recording asks for first.
ZoomUrl(share_url, pass) ==
    IF pass # NoPasscode /\ ~ContainsPwd(share_url)
    THEN share_url
         \o << IF ContainsQuestion(share_url) THEN "&pwd=" ELSE "?pwd=" >>
         \o Quote(pass)
    ELSE share_url

\* Mutant: the passcode test is missing.
AuthMissingNever(pass) == FALSE

\* `if not maybe_passcode` of download_from_link
AuthMissing(pass) == pass = NoPasscode

\* The download GET of download_zoom_recording takes a response as the
\* recording: only its status is looked at.
ZoomAccepts(status, ctype) == status = 200

\* download_from_link, Zoom: the passcode test and download_zoom_recording.
LinkZoom ==
    /\ pc = "link_dl"
    /\ LET url == normalize_link(link)
           page == Request("zoom_page", ZoomUrl(url, passcode), 120)
           dl == Request("zoom_download", <<"downloadUrl">>, 600)
       IN
       /\ Provider(url) = "zoom"
       /\ \/ /\ AuthMissing(passcode)
             /\ LinkFails("auth_required")
             /\ NoWrite
             /\ UNCHANGED <<http, response>>
          \/ /\ ~AuthMissing(passcode)
             /\ \E a \in {"hang", "raise", "403", "200_no_url"} :
                 /\ LinkFails(CASE Await(120, a) = "raise" -> "network"
                                [] a = "403" -> "zoom_page"
                                [] OTHER -> "zoom_no_url")
                 /\ NoWrite
                 /\ http' = http \o <<page>>
                 /\ response' = IF Await(120, a) = "raise" THEN NoResponse
                                ELSE Response("html", MIN_BYTES)
          \/ /\ ~AuthMissing(passcode)
             /\ \E a \in {"hang", "raise"} :
                 /\ Await(600, a) = "raise"
                 /\ LinkFails("network")
                 /\ NoWrite
                 /\ http' = http \o <<page, dl>>
                 /\ response' = NoResponse
          \/ /\ ~AuthMissing(passcode)
             /\ \E status \in {200, 404}, ctype \in {"media", "html"},
                   n \in Sizes :
                 /\ http' = http \o <<page, dl>>
                 /\ response' = Response(ctype, n)
                 /\ IF ~ZoomAccepts(status, ctype)
                    THEN LinkFails("zoom_status") /\ NoWrite
                    ELSE /\ WriteSrc(n, ctype)
                         /\ IF n < MIN_BYTES
                            THEN LinkFails("zoom_small")
                            ELSE LinkAcquired
    /\ interstitial' = interstitial
    /\ UNCHANGED <<ctxVars, normalized, modelVars, chunk_files, procs, loopVars>>

\* Content-Type is text/* or names html
HtmlLike(ctype) == ctype = "html"

\* The cookies of a response, in the order the jar yields them.
CookieJars ==
    { <<>>,
      << [warning |-> TRUE, value |-> "C"] >>,
      << [warning |-> FALSE, value |-> "x"],
         [warning |-> TRUE, value |-> "C"] >>,
      << [warning |-> TRUE, value |-> ""] >> }

\* for k, v in resp.cookies.items(): if k.startswith("download_warning")
RECURSIVE CookieToken(_)
CookieToken(jar) ==
    IF jar = <<>> THEN ""
    ELSE IF Head(jar).warning THEN Head(jar).value
    ELSE CookieToken(Tail(jar))

\* Mutant: the cookies are not searched.
ConfirmTokenBodyOnly(body_token, jar) == body_token

\* The confirm token drive_download_with_confirm finds: the body's, else
\* the cookie's; "" when `not token`.
ConfirmToken(body_token, jar) ==
    IF body_token # "" THEN body_token ELSE CookieToken(jar)

DriveBase(file_id) == <<DriveHost, "uc?export=download", "&id=" \o file_id>>

\* drive_download_with_confirm takes the first response as the file.
DriveDirect(attachment, ctype) == attachment /\ ~HtmlLike(ctype)

\* download_from_link, Google Drive: drive_extract_id,
\* drive_download_with_confirm and ensure_min_size.
LinkDrive ==
    /\ pc = "link_dl"
    /\ LET url == normalize_link(link)
           file_id == drive_extract_id(url)
           first == Request("drive", DriveBase(file_id), 300)
           second(token) ==
               Request("drive_confirm",
                       DriveBase(file_id) \o <<"&confirm=" \o token>>, 600)
           Sized(n) == IF TooSmall(TRUE, n)
                       THEN LinkFails("too_small")
                       ELSE LinkAcquired
       IN
       /\ Provider(url) = "drive"
       /\ \/ /\ file_id = ""
             /\ LinkFails("no_file_id")
             /\ NoWrite
             /\ UNCHANGED <<http, response, interstitial>>
          \/ /\ file_id # ""
             /\ \E a \in {"hang", "raise"} :
                 /\ Await(300, a) = "raise"
                 /\ LinkFails("network")
                 /\ NoWrite
                 /\ http' = http \o <<first>>
                 /\ UNCHANGED <<response, interstitial>>
          \/ /\ file_id # ""
             /\ \E attachment \in BOOLEAN, ctype \in {"media", "html"},
                   n \in Sizes :
                 /\ DriveDirect(attachment, ctype)
                 /\ http' = http \o <<first>>
                 /\ response' = Response(ctype, n)
                 /\ interstitial' = interstitial
                 /\ WriteSrc(n, ctype)
                 /\ Sized(n)
          \/ /\ file_id # ""
             /\ \E attachment \in BOOLEAN, ctype \in {"media", "html"},
                   n \in Sizes, body_token \in {"", "B"}, jar \in CookieJars :
                 LET token == ConfirmToken(body_token, jar) IN
                 /\ ~DriveDirect(attachment, ctype)
                 /\ interstitial' = Interstitial(ctype, body_token, jar)
                 /\ IF token = ""
                    THEN /\ LinkFails("token_missing")
                         /\ NoWrite
                         /\ http' = http \o <<first>>
                         /\ response' = Response(ctype, n)
                    ELSE /\ http' = http \o <<first, second(token)>>
                         /\ \E a2 \in {"hang", "raise", "ok"},
                               ctype2 \in {"media", "html"}, n2 \in Sizes :
                             IF Await(600, a2) = "raise"
                             THEN /\ LinkFails("network")
                                  /\ NoWrite
                                  /\ response' = NoResponse
                             ELSE /\ response' = Response(ctype2, n2)
                                  /\ IF HtmlLike(ctype2)
                                     THEN LinkFails("still_html") /\ NoWrite
                                     ELSE WriteSrc(n2, ctype2) /\ Sized(n2)
    /\ UNCHANGED <<ctxVars, normalized, modelVars, chunk_files, procs, loopVars>>

\* download_from_link, any other link: one GET.
LinkGeneric ==
    /\ pc = "link_dl"
    /\ LET url == normalize_link(link)
           get == Request("get", url, 300)
       IN
       /\ Provider(url) = "generic"
       /\ http' = http \o <<get>>
       /\ \E a \in {"hang", "raise", "ok"}, ctype \in {"media", "html"},
             n \in Sizes :
           IF Await(300, a) = "raise"
           THEN /\ LinkFails("network")
                /\ NoWrite
                /\ response' = NoResponse
           ELSE /\ response' = Response(ctype, n)
                /\ IF HtmlLike(ctype)
                   THEN LinkFails("html") /\ NoWrite
                   ELSE /\ WriteSrc(n, ctype)
                        /\ IF n < MIN_BYTES
                           THEN LinkFails("small")
                           ELSE LinkAcquired
    /\ interstitial' = interstitial
    /\ UNCHANGED <<ctxVars, normalized, modelVars, chunk_files, procs, loopVars>>

\* handle_message, link branch: ensure_min_size after download_from_link.
LinkEnsureMin ==
    /\ pc = "link_min"
    /\ IF TooSmall("src" \in files, src_bytes)
       THEN LinkFails("too_small")
       ELSE /\ replies' = Append(replies, "extracting")
            /\ pc' = "extract"
            /\ err' = err
    /\ UNCHANGED <<ctxVars, normalized, modelVars, netVars, fileVars, http, procs,
                   loopVars>>

(***************************************************************************)
(* ffmpeg and ffprobe                                                      *)
(***************************************************************************)
Invocation(tool, timeout) == [tool |-> tool, timeout |-> timeout]

\* subprocess.run(cmd, stdout=PIPE, stderr=PIPE): the timeout it is given
FfmpegTimeout == NoTimeout
FfprobeTimeout == NoTimeout

\* run_ffmpeg: "ok", "fail" (RuntimeError on a non-zero exit) or "blocked"
run_ffmpeg(answer) == Await(FfmpegTimeout, answer)

\* What ffprobe may answer: a non-zero exit, nothing, or a number.
ProbeAnswers ==
    {[kind |-> k, val |-> 0] : k \in {"hang", "fail", "empty"}}
        \cup {[kind |-> "value", val |-> v] : v \in (-1) .. MaxDuration}

\* run_ffprobe_duration(wav_path) or 0.0
ProbedDuration(answer) ==
    IF answer.kind = "value" THEN answer.val ELSE 0

\* `except Exception as e` around transcribe_wav_chunked
RecognitionFails(e) ==
    /\ err' = e
    /\ replies' = Append(replies, "error_recognition")
    /\ pc' = "exit"

\* extract_audio_to_wav16k_mono(src, wav), then the "recognizing" reply.
\* ffmpeg finds no audio stream in an HTML page.
Extract ==
    /\ pc = "extract"
    /\ procs' = Append(procs, Invocation("ffmpeg_extract", FfmpegTimeout))
    /\ \E a \in {"ok", "fail", "hang"} :
        /\ (src_ctype = "html" => a # "ok")
        /\ CASE run_ffmpeg(a) = "ok" ->
                /\ files' = files \cup {"wav"}
                /\ replies' = Append(replies, "recognizing")
                /\ pc' = "load"
                /\ err' = err
             [] run_ffmpeg(a) = "fail" ->
                /\ err' = "ffmpeg"
                /\ replies' = Append(replies, "error_convert")
                /\ pc' = "exit"
                /\ files' = files
             [] OTHER ->
                /\ pc' = "hung"
                /\ UNCHANGED <<files, replies, err>>
    /\ UNCHANGED <<ctxVars, normalized, modelVars, netVars, src_bytes, src_ctype,
                   chunk_files, http, loopVars>>

(***************************************************************************)
(* transcribe_wav_chunked                                                  *)
(***************************************************************************)
\* Mutant: whatever the chunk cut, the first chunk is what is transcribed.
UnitFirst(kind, i) == [kind |-> kind, idx |-> 0]

Unit(kind, i) == [kind |-> kind, idx |-> i]
WholeWav == Unit("wav", 0)

\* Mutant: a model is constructed at every call.
NeedsModelAlways == TRUE

\* `if _faster_model is None`
NeedsModel == faster_model = "None"

\* load_faster_whisper: the model is built when there is none yet; the
\* global is assigned only when WhisperModel(...) has returned.
LoadModel ==
    /\ pc = "load"
    /\ \/ /\ NeedsModel
          /\ \E a \in {"ok", "raise"} :
              IF a = "ok"
              THEN /\ faster_model' = "loaded"
                   /\ built' = built + 1
                   /\ pc' = "probe"
                   /\ UNCHANGED <<err, replies>>
              ELSE /\ UNCHANGED <<faster_model, built>>
                   /\ RecognitionFails("model")
       \/ /\ ~NeedsModel
          /\ pc' = "probe"
          /\ UNCHANGED <<faster_model, built, err, replies>>
    /\ UNCHANGED <<cfgVars, normalized, netVars, used, probe_answer, msgVars, fileVars, http,
                   procs, loopVars>>

\* Mutant: a file exactly CHUNK_SECONDS long is cut into chunks.
ChunkedFromChunkLength(d) == ~(d <= 0) /\ ~(d < CHUNK_SECONDS)

\* duration = run_ffprobe_duration(wav_path) or 0.0, and the two tests
\* that send the whole file to the model.
Chunked(d) == ~(d <= 0) /\ ~(d <= CHUNK_SECONDS)

Probe ==
    /\ pc = "probe"
    /\ procs' = Append(procs, Invocation("ffprobe", FfprobeTimeout))
    /\ \E answer \in ProbeAnswers :
        /\ probe_answer' = answer
        /\ IF Await(FfprobeTimeout, answer.kind) = "blocked"
           THEN /\ pc' = "hung"
                /\ duration' = duration
           ELSE /\ duration' = ProbedDuration(answer)
                /\ pc' = IF Chunked(duration') THEN "loop" ELSE "whole"
    /\ UNCHANGED <<cfgVars, normalized, netVars, faster_model, modelVars, msgVars, fileVars, http,
                   replies,
                   err, start, idx, trims, asr, seg_outputs, out_texts, text>>

\* model.transcribe(wav_path, ...) on the whole file and the joined text.
TranscribeWhole ==
    /\ pc = "whole"
    /\ asr' = Append(asr, WholeWav)
    /\ used' = used \cup {built}
    /\ \/ /\ RecognitionFails("transcribe")
          /\ UNCHANGED <<seg_outputs, text>>
       \/ \E segments \in BackendOutputs :
          /\ seg_outputs' = Append(seg_outputs, segments)
          /\ text' = UnitText(segments)
          /\ pc' = "deliver"
          /\ UNCHANGED <<err, replies>>
    /\ UNCHANGED <<ctxVars, normalized, built, netVars, fileVars, http, procs,
                   duration, start, idx, trims, out_texts>>

\* Mutant: the last chunk is not shortened to what is left.
ChunkLenFull(dur, st) == CHUNK_SECONDS

\* t = min(CHUNK_SECONDS, duration - start)
ChunkLen(dur, st) == Min(CHUNK_SECONDS, dur - st)

\* Mutant: the loop runs once more when start has reached the duration.
LoopContinuesInclusive == start <= duration

\* while start < duration
LoopContinues == start < duration

\* How many iterations the model follows: every one of a loop that ends,
\* MaxSpin of one that does not.
IterationCap == IF CHUNK_SECONDS >= 1 THEN duration ELSE MaxSpin

\* The head of the loop body: the chunk is cut out of the wav by ffmpeg.
Trim ==
    /\ pc = "loop"
    /\ LoopContinues
    /\ idx < IterationCap
    /\ LET t == ChunkLen(duration, start) IN
       /\ trims' = Append(trims, [idx |-> idx, start |-> start, t |-> t])
       /\ procs' = Append(procs, Invocation("ffmpeg_trim", FfmpegTimeout))
       /\ \E a \in {"ok", "fail", "hang"} :
           CASE run_ffmpeg(a) = "ok" ->
                /\ chunk_files' = chunk_files \cup {idx}
                /\ pc' = "chunk"
                /\ UNCHANGED <<err, replies>>
             [] run_ffmpeg(a) = "fail" ->
                /\ LeaveChunkDir
                /\ RecognitionFails("ffmpeg")
             [] OTHER ->
                /\ pc' = "hung"
                /\ UNCHANGED <<chunk_files, err, replies>>
    /\ UNCHANGED <<ctxVars, normalized, modelVars, netVars, files, src_bytes,
                   src_ctype, http, duration, start, idx, asr, seg_outputs,
                   out_texts, text>>

\* Mutant: the text of a silent chunk is appended too.
CollectAll(texts, segments) == Append(texts, UnitText(segments))

\* out_texts after a chunk whose segments are `segments`
Collect(texts, segments) ==
    IF Parts(segments) # <<>>
    THEN Append(texts, UnitText(segments))
    ELSE texts

\* The rest of the loop body: model.transcribe(chunk_path, ...), the
\* chunk's text appended, start and idx advanced.
TranscribeChunk ==
    /\ pc = "chunk"
    /\ asr' = Append(asr, Unit("chunk", idx))
    /\ used' = used \cup {built}
    /\ \/ /\ LeaveChunkDir
          /\ RecognitionFails("transcribe")
          /\ UNCHANGED <<seg_outputs, out_texts, start, idx>>
       \/ \E segments \in BackendOutputs :
          /\ seg_outputs' = Append(seg_outputs, segments)
          /\ out_texts' = Collect(out_texts, segments)
          /\ start' = start + ChunkLen(duration, start)
          /\ idx' = idx + 1
          /\ pc' = "loop"
          /\ UNCHANGED <<chunk_files, err, replies>>
    /\ UNCHANGED <<ctxVars, normalized, built, netVars, files, src_bytes,
                   src_ctype, http, procs, duration, trims, text>>

\* "\n\n".join(out_texts).strip()
Assemble(texts) == Strip(Join(<<NL, NL>>, texts))

\* The loop ends: the chunk directory is left and the text returned.
LoopExit ==
    /\ pc = "loop"
    /\ ~LoopContinues
    /\ LeaveChunkDir
    /\ text' = Assemble(out_texts)
    /\ pc' = "deliver"
    /\ UNCHANGED <<ctxVars, normalized, modelVars, netVars, files, src_bytes,
                   src_ctype, http, procs, replies, err, duration, start, idx,
                   trims, asr, seg_outputs, out_texts>>

(***************************************************************************)
(* handle_message: the result.                                             *)
(***************************************************************************)

\* Mutant: the document is sent whatever the text.
HasTextAlways(t) == TRUE

\* `if text:`
HasText(t) == t # <<>>

\* The transcript is written and sent as a document, or the warning is.
Deliver ==
    /\ pc = "deliver"
    /\ IF HasText(text)
       THEN /\ files' = files \cup {"transcript"}
            /\ replies' = replies \o <<"document", "done">>
       ELSE /\ files' = files
            /\ replies' = Append(replies, "no_text")
    /\ pc' = "exit"
    /\ UNCHANGED <<ctxVars, normalized, modelVars, netVars, src_bytes, src_ctype,
                   chunk_files, http, procs, err, loopVars>>

\* The handler returns (or its exception leaves it): the temporary
\* directory goes.
Return ==
    /\ pc = "exit"
    /\ LeaveTmpdir
    /\ pc' = "done"
    /\ UNCHANGED <<ctxVars, normalized, modelVars, netVars, src_bytes, src_ctype,
                   chunk_files, logVars, loopVars>>

Next ==
    \/ Receive
    \/ AttachDownload
    \/ AttachEnsureMin
    \/ LinkZoom
    \/ LinkDrive
    \/ LinkGeneric
    \/ LinkEnsureMin
    \/ Extract
    \/ LoadModel
    \/ Probe
    \/ TranscribeWhole
    \/ Trim
    \/ TranscribeChunk
    \/ LoopExit
    \/ Deliver
    \/ Return

Spec == Init /\ [][Next]_vars

(***************************************************************************)
(* normalize_link on its own: a URL is normalized, and what comes out is   *)
(* normalized again.                                                       *)
(***************************************************************************)
UrlTokens == {SP, "/s", "/", "download", "tok", ZoomRec, "?pwd="}

Urls == UNION {[1 .. n -> UrlTokens] : n \in 0 .. MaxUrlLen}

InitNormalize ==
    /\ ModuleLoaded
    /\ CHUNK_SECONDS = 1
    /\ \E u \in Urls : normalized = <<u>>

Normalize ==
    /\ normalized # <<>>
    /\ Len(normalized) < 3
    /\ normalized' =
          Append(normalized, normalize_link(normalized[Len(normalized)]))
    /\ UNCHANGED <<ctxVars, modelVars, pc, fileVars, logVars, netVars,
                   loopVars>>

NextNormalize == Normalize

SpecNormalize == InitNormalize /\ [][NextNormalize]_vars

(***************************************************************************)
(* Properties                                                              *)
(***************************************************************************)
Last(s) == s[Len(s)]

Finished == pc \in {"exit", "done"}

\* transcribe_wav_chunked has returned from its chunk loop
ChunkedDone ==
    /\ Chunked(duration)
    /\ pc \in {"deliver", "exit", "done"}
    /\ err = ""

RECURSIVE SumLengths(_)
SumLengths(ts) ==
    IF ts = <<>> THEN 0 ELSE Head(ts).t + SumLengths(Tail(ts))

Lengths == [i \in DOMAIN trims |-> trims[i].t]

\* C1: with CHUNK_SECONDS >= 1, the trims of a file longer than
\* CHUNK_SECONDS are numbered 0, 1, 2, ..., the first starts at 0, each
\* starts where the one before ends, each has a positive length, and when
\* the loop has ended the lengths add up to the duration.
C1_SegmentsTile ==
    CHUNK_SECONDS >= 1 =>
        /\ \A i \in DOMAIN trims :
            /\ trims[i].idx = i - 1
            /\ trims[i].t > 0
            /\ trims[i].start =
                  IF i = 1 THEN 0 ELSE trims[i - 1].start + trims[i - 1].t
        /\ (ChunkedDone => SumLengths(trims) = duration)

C1_Witness ==
    /\ ChunkedDone
    /\ CHUNK_SECONDS = 2
    /\ duration = 4
    /\ Len(trims) = 2

CeilDiv(a, b) == (a + b - 1) \div b

\* C2: a file longer than CHUNK_SECONDS (>= 1) is cut into
\* ceil(duration / CHUNK_SECONDS) chunks: all but the last CHUNK_SECONDS
\* long, the last longer than 0 and at most CHUNK_SECONDS; no chunk is
\* ever longer than CHUNK_SECONDS or empty.
C2_SegmentCount ==
    CHUNK_SECONDS >= 1 =>
        /\ \A i \in DOMAIN trims :
              trims[i].t > 0 /\ trims[i].t <= CHUNK_SECONDS
        /\ (trims # <<>> =>
              Len(trims) <= CeilDiv(duration, CHUNK_SECONDS))
        /\ (ChunkedDone =>
              /\ Len(trims) = CeilDiv(duration, CHUNK_SECONDS)
              /\ \A i \in 1 .. (Len(trims) - 1) : trims[i].t = CHUNK_SECONDS)

C2_Witness ==
    /\ ChunkedDone
    /\ CHUNK_SECONDS = 2
    /\ Lengths = <<2, 2, 1>>

NoTrimInvoked == \A i \in DOMAIN procs : procs[i].tool # "ffmpeg_trim"

\* ffprobe failed, printed nothing, or printed a duration that is <= 0 or
\* <= CHUNK_SECONDS
WholeCase ==
    \/ probe_answer.kind \in {"fail", "empty"}
    \/ /\ probe_answer.kind = "value"
       /\ (probe_answer.val <= 0 \/ probe_answer.val <= CHUNK_SECONDS)

\* C3: when the probe fails, yields nothing, or yields a duration <= 0 or
\* <= CHUNK_SECONDS, the request goes on: nothing is trimmed and the model
\* is given the whole waveform, once; the only failure left is the
\* model's own.
C3_WholeFileFallback ==
    WholeCase =>
        /\ trims = <<>>
        /\ chunk_files = {}
        /\ NoTrimInvoked
        /\ pc \in {"whole", "deliver", "exit", "done"}
        /\ (pc = "whole" => asr = <<>> /\ err = "")
        /\ (pc # "whole" => asr = <<WholeWav>> /\ err \in {"", "transcribe"})
        /\ (pc = "deliver" => err = "")

C3_Witness ==
    /\ probe_answer.kind = "fail"
    /\ pc = "deliver"
    /\ asr = <<WholeWav>>
    /\ text # <<>>

\* The non-empty texts of the units, in the order of the units, a blank
\* line between them.
ExpectedTranscript(outputs) ==
    Join(<<NL, NL>>,
         SelectSeq([i \in DOMAIN outputs |-> UnitText(outputs[i])], NonEmpty))

TranscriptReturned ==
    /\ pc \in {"deliver", "exit", "done"}
    /\ err = ""
    /\ asr # <<>>

\* C4: the chunks are transcribed in the order of their ordinals, and the
\* text returned is the non-empty chunk texts in that order joined by a
\* blank line: a chunk with no text adds neither text nor separator.
C4_AssembledInOrdinalOrder ==
    /\ (Chunked(duration) =>
          \A i \in DOMAIN asr : asr[i] = Unit("chunk", i - 1))
    /\ (TranscriptReturned =>
          /\ Len(seg_outputs) = Len(asr)
          /\ text = ExpectedTranscript(seg_outputs))

C4_Witness ==
    /\ pc = "deliver"
    /\ Len(seg_outputs) = 3
    /\ Len(out_texts) = 2
    /\ text = <<"a", NL, "b", NL, NL, "c">>

ErrorReplies ==
    {"error_size", "error_download", "error_convert", "error_recognition"}

\* The model answered for every unit and found no text in any.
AllEmpty ==
    /\ asr # <<>>
    /\ Len(seg_outputs) = Len(asr)
    /\ \A i \in DOMAIN seg_outputs : UnitText(seg_outputs[i]) = <<>>

Extracted == \E i \in DOMAIN procs : procs[i].tool = "ffmpeg_extract"

\* C5: a request whose every unit came back empty ends with the "no text"
\* warning, with no document and no error reply; and the warning is sent
\* only when nothing failed and every unit came back empty.
C5_NoSpeechOutcome ==
    Finished =>
        /\ (err = "" /\ AllEmpty =>
              /\ Last(replies) = "no_text"
              /\ Range(replies) \cap (ErrorReplies \cup {"document"}) = {}
              /\ "transcript" \notin files)
        /\ ("no_text" \in Range(replies) =>
              /\ err = ""
              /\ Extracted
              /\ AllEmpty
              /\ Range(replies) \cap (ErrorReplies \cup {"document"}) = {})

C5_Witness ==
    /\ pc = "done"
    /\ Last(replies) = "no_text"
    /\ Len(asr) >= 2

BadFinalResponse ==
    HtmlLike(response.ctype) \/ response.bytes < MIN_BYTES

\* C6: on the link branch, whatever the strategy, a fetch whose last
\* response is HTML-like or shorter than MIN_BYTES ends the request with
\* the download error, and ffmpeg is never run on what it left.
C6_GuardOnEveryStrategy ==
    (~media /\ http # <<>> /\ BadFinalResponse) =>
        /\ Finished
        /\ "error_download" \in Range(replies)
        /\ ~Extracted

NoSecretAnywhere == passcode = NoPasscode /\ ~ContainsPwd(link)

\* C7: a Zoom link with no passcode in the text and no pwd= in the URL
\* fails with the auth-required error, with no HTTP request issued and
\* nothing written.
C7_ZoomAuthBeforeNetwork ==
    (/\ ~media
     /\ link # NoLink
     /\ IsZoom(normalize_link(link))
     /\ NoSecretAnywhere
     /\ pc # "link_dl") =>
        /\ Finished
        /\ err = "auth_required"
        /\ http = <<>>
        /\ "src" \notin files
        /\ replies = <<"downloading_link", "error_download">>

C7_Witness ==
    /\ pc = "exit"
    /\ err = "auth_required"
    /\ NoSecretAnywhere

\* Drive's first response was an HTML page, not the file.
HtmlInterstitial == HtmlLike(interstitial.ctype)

\* a cookie whose name starts with download_warning
WarningCookies(jar) == {i \in DOMAIN jar : jar[i].warning}

FirstWarningCookie(jar) ==
    jar[CHOOSE i \in WarningCookies(jar) :
            \A j \in WarningCookies(jar) : i <= j]

ConfirmRequests == {i \in DOMAIN http : http[i].op = "drive_confirm"}

\* The one second GET of the Drive fetch, carrying `token`.
OneConfirmRequest(token) ==
    /\ Len(http) = 2
    /\ ConfirmRequests = {2}
    /\ http[2].url = http[1].url \o <<"&confirm=" \o token>>

ConfirmRefused ==
    /\ err = "token_missing"
    /\ Len(http) = 1
    /\ ConfirmRequests = {}
    /\ "src" \notin files

\* Nothing is on disk after an HTML (or missing) last response.
WrittenOnlyIfNotHtml ==
    (HtmlLike(response.ctype) \/ response = NoResponse) => "src" \notin files

\* C8 as stated: after an HTML interstitial, a token in the body, or else
\* the mere presence of a download_warning cookie, leads to exactly one
\* second GET carrying it; with neither, the fetch fails with the
\* token-missing error, no second GET and no file.
C8_AnyWarningCookie ==
    HtmlInterstitial =>
        IF interstitial.body_token # ""
        THEN OneConfirmRequest(interstitial.body_token)
             /\ WrittenOnlyIfNotHtml
        ELSE IF WarningCookies(interstitial.jar) # {}
        THEN OneConfirmRequest(FirstWarningCookie(interstitial.jar).value)
             /\ WrittenOnlyIfNotHtml
        ELSE ConfirmRefused

\* The first download_warning cookie has a value.
CookieOffersToken(jar) ==
    /\ WarningCookies(jar) # {}
    /\ FirstWarningCookie(jar).value # ""

\* C8 amended: the cookie counts only when the first download_warning
\* cookie has a non-empty value; one with an empty value is as no token.
C8_ConfirmRetry ==
    HtmlInterstitial =>
        IF interstitial.body_token # ""
        THEN OneConfirmRequest(interstitial.body_token)
             /\ WrittenOnlyIfNotHtml
        ELSE IF CookieOffersToken(interstitial.jar)
        THEN OneConfirmRequest(FirstWarningCookie(interstitial.jar).value)
             /\ WrittenOnlyIfNotHtml
        ELSE ConfirmRefused

C8_Witness ==
    /\ HtmlInterstitial
    /\ interstitial.body_token = ""
    /\ Len(http) = 2
    /\ http[2].url = DriveBase("F") \o <<"&confirm=C">>
    /\ "src" \in files
    /\ pc = "link_min"

\* C9: every HTTP request and every ffmpeg/ffprobe invocation is bounded
\* by a timeout, so that one that never answers is aborted: the request is
\* never left blocked for good on a server or a tool that does not answer.
C9_NeverBlockedForever == pc # "hung"

\* C10: when the handler has returned, whatever the outcome, nothing is
\* left of the source, the waveform, the chunks or the transcript; the
\* chunks are gone as soon as transcribe_wav_chunked is left.
C10_ArtifactsRemoved ==
    /\ (pc = "done" => files = {} /\ chunk_files = {})
    /\ (pc \in {"deliver", "exit"} => chunk_files = {})

C10_Witness ==
    /\ pc = "done"
    /\ "document" \in Range(replies)
    /\ Len(trims) >= 2

\* No entry of the sequence occurs twice.
NoRepeat(s) == \A i, j \in DOMAIN s : s[i] = s[j] => i = j

Count(s, tool) == Cardinality({i \in DOMAIN s : s[i].tool = tool})

\* No request, no extraction, no probe, no chunk is asked for twice.
NothingRepeated ==
    /\ NoRepeat(http)
    /\ NoRepeat(asr)
    /\ NoRepeat([i \in DOMAIN trims |-> trims[i].idx])
    /\ Count(procs, "ffmpeg_extract") <= 1
    /\ Count(procs, "ffprobe") <= 1
    /\ Count(procs, "ffmpeg_trim") = Len(trims)

\* C11: once a step of a request has failed (err is set), the handler is
\* on its way out: no request, no tool, no model call and no reply follows
\* until the next message; and no request, tool invocation or chunk is
\* ever issued twice within a request.
C11_FailFastNoRetry ==
    /\ [](err # "" => pc \in {"exit", "done"})
    /\ []NothingRepeated
    /\ [][err # "" /\ err' # "" =>
            UNCHANGED <<http, procs, trims, asr, seg_outputs, replies, err>>]_vars

C11_Witness ==
    /\ pc = "done"
    /\ ~media
    /\ err = "network"
    /\ Len(http) = 2
    /\ Last(replies) = "error_download"


\* The step starts the tool: one more invocation, of `tool`.
Starts(tool) ==
    /\ Len(procs') = Len(procs) + 1
    /\ Last(procs').tool = tool

\* The step gives one more waveform to the model.
StartsTranscription == Len(asr') = Len(asr) + 1

\* The step sends the transcript.
Delivers == "document" \in Range(replies') /\ "document" \notin Range(replies)

SourceAccepted ==
    /\ "src" \in files
    /\ src_bytes >= MIN_BYTES
    /\ err = ""

\* The replies of a request that went through every stage.
FullProgress ==
    << IF media THEN "downloading" ELSE "downloading_link",
       "extracting", "recognizing", "document", "done" >>

\* C12: a stage starts only when the one before it has succeeded and its
\* output exists: the extraction on an accepted source and as the first
\* tool; the probe as the second tool, on the waveform; a trim after a
\* probed duration; a model call after the probe, on the waveform or on a
\* chunk that was cut; the transcript after every model call has answered
\* with nothing failed.  A request that delivered went through every stage
\* in that order.
C12_StagesInOrder ==
    /\ [][Starts("ffmpeg_extract") => SourceAccepted /\ procs = <<>>]_vars
    /\ [][Starts("ffprobe") =>
            /\ SourceAccepted
            /\ "wav" \in files
            /\ Len(procs) = 1
            /\ procs[1].tool = "ffmpeg_extract"
            /\ asr = <<>>]_vars
    /\ [][Starts("ffmpeg_trim") =>
            /\ "wav" \in files
            /\ probe_answer.kind = "value"
            /\ err = ""
            /\ Len(seg_outputs) = Len(asr)]_vars
    /\ [][StartsTranscription =>
            /\ "wav" \in files
            /\ probe_answer # NoAnswer
            /\ err = ""
            /\ (Last(asr').kind = "chunk" => Last(asr').idx \in chunk_files)]_vars
    /\ [][Delivers =>
            /\ "wav" \in files
            /\ err = ""
            /\ asr # <<>>
            /\ Len(seg_outputs) = Len(asr)
            /\ text # <<>>]_vars
    /\ []("document" \in Range(replies) =>
            replies = FullProgress /\ err = "" /\ src_bytes >= MIN_BYTES)

C12_Witness ==
    /\ pc = "done"
    /\ ~media
    /\ replies = FullProgress
    /\ Len(asr) = 1


\* C13: a model is constructed only inside a transcription (after the
\* "recognizing" reply of some request), at most one construction ever
\* succeeds, the instance held is never replaced, and every call of
\* model.transcribe, in whatever request, is made on that one instance.
C13_SingleLazyInstance ==
    /\ [](built <= 1)
    /\ []((faster_model = "None") <=> (built = 0))
    /\ [](used \subseteq {1})
    /\ [](asr # <<>> => built = 1 /\ used = {1})
    /\ [][built' # built =>
            /\ pc = "load"
            /\ Last(replies) = "recognizing"
            /\ built = 0
            /\ built' = 1]_vars
    /\ [][faster_model # "None" => faster_model' = faster_model]_vars

\* A later request goes past load_faster_whisper with the model of an
\* earlier one.
C13_Witness ==
    /\ pc = "probe"
    /\ asr = <<>>
    /\ used = {1}
    /\ built = 1


\* C14: normalize_link applied to its own result changes nothing; and the
\* canonical forms the fetchers ask for (the Zoom URL with the passcode
\* folded in, Drive's uc?export=download&id=...) are left as they are, by
\* normalize_link and by the rewriting that made them.
C14_NormalizeIdempotent ==
    /\ (Len(normalized) >= 3 => normalized[3] = normalized[2])
    /\ (Len(normalized) >= 2 =>
          \A p \in Passcodes :
              LET zoom == ZoomUrl(normalized[2], p) IN
              /\ normalize_link(zoom) = zoom
              /\ ZoomUrl(zoom, p) = zoom)
    /\ normalize_link(DriveBase("F")) = DriveBase("F")
    /\ DriveBase(drive_extract_id(DriveBase("F"))) = DriveBase("F")

\* A share link with a blank before it got /download, and kept it as it
\* was when normalized again.
C14_Witness ==
    normalized = << <<SP, "/s", "/">>,
                    <<"/s", "/", "download">>,
                    <<"/s", "/", "download">> >>


\* C15: the Zoom download GET is the second request, issued after the
\* share-page GET, through the same session, with a Referer header.
C15_ZoomDownloadWithReferer ==
    \A i \in DOMAIN http :
        http[i].op = "zoom_download" =>
            /\ i = 2
            /\ http[1].op = "zoom_page"
            /\ http[2].session # "none"
            /\ http[2].session = http[1].session
            /\ "Referer" \in http[2].headers


\* The fetch of a Zoom link has been attempted.
ZoomAttempted ==
    /\ ~media
    /\ link # NoLink
    /\ IsZoom(normalize_link(link))
    /\ pc # "link_dl"

PwdCount(url) == Cardinality({i \in DOMAIN url : HasPwd(url[i])})

\* C16: a Zoom fetch fails with the auth-required error exactly when there
\* is no pwd= in the URL and no passcode in the text; and when there is a
\* secret, the URL asked for carries pwd= exactly once.
C16_SecretFromEitherSource ==
    ZoomAttempted =>
        /\ (err = "auth_required" <=> NoSecretAnywhere)
        /\ (http # <<>> => PwdCount(http[1].url) = 1)


\* The requests each strategy makes, and the error it raises before any.
StrategyOps(strategy) ==
    CASE strategy = "zoom" -> {"zoom_page", "zoom_download"}
      [] strategy = "drive" -> {"drive", "drive_confirm"}
      [] OTHER -> {"get"}

StrategyRefusal(strategy) ==
    CASE strategy = "zoom" -> {"auth_required"}
      [] strategy = "drive" -> {"no_file_id"}
      [] OTHER -> {}

\* The fetch of a link has been attempted.
LinkAttempted ==
    /\ ~media
    /\ link # NoLink
    /\ pc # "link_dl"

MatchesBoth(url) == IsZoom(url) /\ IsDrive(url)

\* C17: a link is handled by one strategy only: Zoom's when it matches the
\* Zoom pattern (whatever else it matches), else Drive's when it names
\* Drive's host, else the one direct GET.  Every request made is of that
\* strategy, and a fetch that made none was refused by that strategy.
C17_FixedPriorityDispatch ==
    LinkAttempted =>
        LET u == normalize_link(link)
            strategy == IF IsZoom(u) THEN "zoom"
                        ELSE IF IsDrive(u) THEN "drive"
                        ELSE "generic"
        IN
        /\ \A i \in DOMAIN http : http[i].op \in StrategyOps(strategy)
        /\ (http = <<>> => err \in StrategyRefusal(strategy))
        /\ (strategy = "generic" => Len(http) = 1)

C17_Witness ==
    /\ LinkAttempted
    /\ MatchesBoth(normalize_link(link))
    /\ Len(http) = 2
    /\ http[1].op = "zoom_page"
    /\ "src" \in files


\* The chunks cut and not yet given to the model.
Pending == chunk_files \ {asr[i].idx : i \in DOMAIN asr}

\* The step cuts one more chunk.
Trims == Len(trims') = Len(trims) + 1

\* C18: chunk k is cut only when chunks 0..k-1 have each been cut, given
\* to the model and answered; the model is given the chunks in the order
\* they were cut, each before the next is cut; so at most one chunk is on
\* disk and not yet transcribed.
C18_StrictOrdinalOrder ==
    /\ [](trims # <<>> =>
            /\ Len(asr) <= Len(trims)
            /\ Len(trims) <= Len(asr) + 1
            /\ \A i \in DOMAIN trims : trims[i].idx = i - 1
            /\ \A i \in DOMAIN asr :
                  asr[i].kind = "chunk" /\ asr[i].idx = trims[i].idx
            /\ chunk_files \subseteq {trims[i].idx : i \in DOMAIN trims})
    /\ [](Cardinality(Pending) <= 1)
    /\ [][Trims =>
            /\ Len(asr) = Len(trims)
            /\ Len(seg_outputs) = Len(trims)
            /\ Pending = {}
            /\ Last(trims').idx = Len(trims)]_vars

\* The third chunk is cut and waits for the model; the two before it have
\* been transcribed.
C18_Witness ==
    /\ pc = "chunk"
    /\ chunk_files = {0, 1, 2}
    /\ Pending = {2}
    /\ Len(seg_outputs) = 2


\* C19: whatever CHUNK_SECONDS, each iteration of the chunk loop starts
\* later in the file than the one before it: every iteration that has
\* completed has moved start forward, towards the duration.
C19_StartStrictlyIncreases ==
    /\ \A i \in DOMAIN trims :
          i > 1 => trims[i].start > trims[i - 1].start
    /\ (pc = "loop" /\ idx > 0 => start > 0)


\* The replies that end a request: the transcript, the warning, an error.
Outcomes == ErrorReplies \cup {"document", "no_text"}

OutcomeCount == Cardinality({i \in DOMAIN replies : replies[i] \in Outcomes})

\* C20: a request with an attachment or a link that has come to its end
\* has sent exactly one outcome; the transcript and an error reply never
\* go to the same request; and a message with an attachment is handled by
\* the attachment branch alone, whatever link its text holds.
C20_ExactlyOneOutcome ==
    /\ (pc = "done" /\ (media \/ link # NoLink) => OutcomeCount = 1)
    /\ OutcomeCount <= 1
    /\ ("document" \in Range(replies) =>
            Range(replies) \cap ErrorReplies = {})
    /\ (media => http = <<>> /\ "downloading_link" \notin Range(replies))


=============================================================================
